---- MODULE Spec2Model ----
(***************************************************************************)
(* Model of the lead enrichment pipeline of src/lead_pipeline_v0.py:       *)
(* the two-tier content fetch, the schema-validated extraction and the     *)
(* duplicate-checked append to the "companies" worksheet, driven by main.  *)
(*                                                                         *)
(* Texts are sequences of one-character strings, so that strip() and       *)
(* lower() are computed and not assumed.  A fetched page text is modelled  *)
(* by its length only: no code path reads its characters.                  *)
(***************************************************************************)
EXTENDS Integers, Sequences, FiniteSets, TLC

\* ------------------------------------------------------------------ bounds
MaxBatch == 2
MaxInitRows == 1

\* ------------------------------------------------------- program constants
FALLBACK_MIN_LEN == 200
TEXT_CAP == 10000

\* ------------------------------------------------------------------ values
\* A Python value of a record or of a sheet cell: None, str, int or list of str.
None == [t |-> "none", s |-> <<>>, n |-> 0, l |-> <<>>]
PyStr(x) == [t |-> "str", s |-> x, n |-> 0, l |-> <<>>]
PyInt(x) == [t |-> "int", s |-> <<>>, n |-> x, l |-> <<>>]
PyList(x) == [t |-> "list", s |-> <<>>, n |-> 0, l |-> x]

\* Python truthiness of a value ("x or default", "if not x").
Truthy(v) ==
    CASE v.t = "none" -> FALSE
      [] v.t = "str" -> v.s # <<>>
      [] v.t = "int" -> v.n # 0
      [] OTHER -> v.l # <<>>

\* dict.get(key, default) on a dict modelled as a function from its keys.
Get(d, k, default) == IF k \in DOMAIN d THEN d[k] ELSE default

\* ------------------------------------------------------------------- texts
LowerChar(c) ==
    CASE c = "A" -> "a"
      [] c = "B" -> "b"
      [] OTHER -> c

UpperChar(c) ==
    CASE c = "a" -> "A"
      [] c = "b" -> "B"
      [] OTHER -> c

IsSpace(c) == c = " "

\* str.lower()
lower(s) == [k \in 1..Len(s) |-> LowerChar(s[k])]

RECURSIVE lstrip(_)
lstrip(s) ==
    IF s # <<>> /\ IsSpace(Head(s)) THEN lstrip(Tail(s)) ELSE s

RECURSIVE rstrip(_)
rstrip(s) ==
    IF s # <<>> /\ IsSpace(s[Len(s)]) THEN rstrip(SubSeq(s, 1, Len(s) - 1)) ELSE s

\* str.strip()
strip(s) == rstrip(lstrip(s))

\* "." in v
HasDot(s) == \E k \in 1..Len(s) : s[k] = "."

\* domain.split(".")[0]
RECURSIVE FirstLabel(_)
FirstLabel(s) ==
    IF s = <<>> \/ Head(s) = "." THEN <<>> ELSE <<Head(s)>> \o FirstLabel(Tail(s))

\* str.title() of a single label: first letter upper-cased, the rest lower-cased.
title(s) ==
    [k \in 1..Len(s) |-> IF k = 1 THEN UpperChar(s[k]) ELSE LowerChar(s[k])]

\* ", ".join(str(v) for v in value)
RECURSIVE JoinComma(_)
JoinComma(l) ==
    IF l = <<>> THEN <<>>
    ELSE IF Len(l) = 1 THEN Head(l)
    ELSE Head(l) \o <<",", " ">> \o JoinComma(Tail(l))

\* ------------------------------------------------------------------ schema
SHEET_COLUMNS ==
    << "company_name", "domain", "hq_country", "hq_city", "firm_type", "aum_estimate",
       "team_size", "revenue_model", "tech_orientation", "pain_points", "recent_activity",
       "summary", "fit_reasoning", "fit_score", "fit_class", "outreach_snippet", "sources",
       "first_seen", "last_seen" >>

Columns == {SHEET_COLUMNS[k] : k \in 1..Len(SHEET_COLUMNS)}

\* SHEET_COLUMNS.index(col) + 1: the 1-based column number of the sheet.
ColumnIndex(col) == CHOOSE k \in 1..Len(SHEET_COLUMNS) : SHEET_COLUMNS[k] = col

\* ------------------------------------------------------ texts of the model
\* Domain texts: "a.c", "A.c" (same domain, other case), "a.c " (same domain,
\* trailing blank), "b.c" (another domain) and "ac" (no dot).
dA == <<"a", ".", "c">>
dAU == <<"A", ".", "c">>
dAS == <<"a", ".", "c", " ">>
dB == <<"b", ".", "c">>
dNoDot == <<"a", "c">>

\* Words whose spelling no code path inspects are one element long.
Word(w) == <<w>>

\* ISO dates (YYYY-MM-DD) compare as texts; three consecutive days.
Day1 == <<"0", "1">>
Day2 == <<"0", "2">>
Day3 == <<"0", "3">>

\* time.strftime("%Y-%m-%d") during the batch.
Today == Day2

\* --------------------------------------------------------- Company_Profile
RequiredStr == {"company_name", "domain", "summary", "fit_reasoning", "outreach_snippet"}

OptionalStr ==
    {"hq_country", "hq_city", "aum_estimate", "team_size", "revenue_model",
     "tech_orientation", "pain_points", "recent_activity", "first_seen", "last_seen"}

FirmTypes ==
    {Word("hedge_fund"), Word("prop_trading"), Word("asset_manager"), Word("family_office"),
     Word("crypto_fund"), Word("broker"), Word("data_vendor"), Word("other")}

FitClasses == {Word("High"), Word("Medium"), Word("Low")}

\* Field(ge=0) without the upper bound (a mutation of FitScoreOk).
FitScoreLowerOnly(n) == 0 <= n

\* Field(ge=0, le=100)
FitScoreOk(n) == 0 <= n /\ n <= 100

\* @field_validator("domain"): "." must be in the value.
domain_ok(v) == HasDot(v)

\* Company_Profile.model_validate(parsed) does not raise.
model_validate(parsed) ==
    /\ \A k \in RequiredStr : k \in DOMAIN parsed /\ parsed[k].t = "str"
    /\ \A k \in OptionalStr : k \in DOMAIN parsed => parsed[k].t \in {"none", "str"}
    /\ "firm_type" \in DOMAIN parsed =>
          \/ parsed["firm_type"].t = "none"
          \/ parsed["firm_type"].t = "str" /\ parsed["firm_type"].s \in FirmTypes
    /\ "fit_score" \in DOMAIN parsed
    /\ parsed["fit_score"].t = "int"
    /\ FitScoreOk(parsed["fit_score"].n)
    /\ "fit_class" \in DOMAIN parsed
    /\ parsed["fit_class"].t = "str"
    /\ parsed["fit_class"].s \in FitClasses
    /\ "sources" \in DOMAIN parsed
    /\ parsed["sources"].t = "list"
    /\ domain_ok(parsed["domain"].s)

\* obj.model_dump(): every declared field, absent optional ones as None,
\* undeclared keys dropped.
model_dump(parsed) == [k \in Columns |-> Get(parsed, k, None)]

\* ------------------------------------------------- outputs of the model call
Url1 == Word("https://a.c/about")
Url2 == Word("https://news/a")

\* A complete output object of the generative model.
Profile(dom, score, cls, srcs, fs, ls) ==
    [k \in Columns |->
        CASE k = "company_name" -> PyStr(Word("Acme"))
          [] k = "domain" -> PyStr(dom)
          [] k = "firm_type" -> PyStr(Word("hedge_fund"))
          [] k = "summary" -> PyStr(Word("Summary."))
          [] k = "fit_reasoning" -> PyStr(Word("Reasoning."))
          [] k = "fit_score" -> PyInt(score)
          [] k = "fit_class" -> PyStr(cls)
          [] k = "outreach_snippet" -> PyStr(Word("Hello."))
          [] k = "sources" -> PyList(srcs)
          [] k = "first_seen" -> fs
          [] k = "last_seen" -> ls
          [] OTHER -> None]

\* The same object without one of its keys.
Without(d, key) == [k \in (DOMAIN d) \ {key} |-> d[k]]

\* The same object with one more, undeclared, key.
WithExtra(d) == [k \in (DOMAIN d) \cup {"ticker"} |-> IF k = "ticker" THEN PyStr(Word("ACM")) ELSE d[k]]

\* What response.parsed / json.loads(response.text) can be: objects the schema
\* accepts (boundary scores, one or several sources, other spellings of the
\* domain, another domain) and objects it must refuse.
ModelOutputs ==
    { Profile(dA, 0, Word("High"), <<Url1>>, None, None),
      Profile(dAU, 100, Word("Medium"), <<Url1, Url2>>, PyStr(Day1), PyStr(Day2)),
      WithExtra(Profile(dB, 50, Word("Low"), <<Url1>>, PyStr(Day2), PyStr(Day2))),
      Profile(dA, 50, Word("High"), <<>>, PyStr(Day2), PyStr(Day2)),
      Profile(dA, 50, Word("High"), <<Url1>>, PyStr(Day3), PyStr(Day2)),
      Profile(dA, 0 - 1, Word("Low"), <<Url1>>, None, None),
      Profile(dA, 101, Word("High"), <<Url1>>, None, None),
      Profile(dA, 150, Word("High"), <<Url1>>, None, None),
      Profile(dA, 50, Word("Great"), <<Url1>>, None, None),
      Profile(dNoDot, 50, Word("High"), <<Url1>>, None, None),
      Without(Profile(dA, 50, Word("High"), <<Url1>>, None, None), "summary") }

\* ------------------------------------------------------------------- store
\* The worksheet: its header row, then the appended rows; a row is the
\* sequence of the values handed to append_row.
HeaderRow == [k \in 1..Len(SHEET_COLUMNS) |-> PyStr(Word(SHEET_COLUMNS[k]))]

\* The text the sheet gives back for a cell (col_values returns strings).
CellText(v) ==
    CASE v.t = "str" -> v.s
      [] v.t = "none" -> <<>>
      [] v.t = "int" -> Word(ToString(v.n))
      [] OTHER -> JoinComma(v.l)

\* ws.col_values(idx)
col_values(w, idx) == [r \in 1..Len(w) |-> CellText(w[r][idx])]

\* get_seen_domains without lower-casing (a mutation of get_seen_domains).
get_seen_domains_nolower(w) ==
    LET vals == Tail(col_values(w, ColumnIndex("domain")))
    IN  {strip(vals[r]) : r \in 1..Len(vals)}

get_seen_domains(w) ==
    LET vals == Tail(col_values(w, ColumnIndex("domain")))
    IN  {lower(strip(vals[r])) : r \in 1..Len(vals)}

\* The value appended for one column: lists become comma-separated text.
CellValue(row_dict, col) ==
    LET value == Get(row_dict, col, PyStr(<<>>))
    IN  IF value.t = "list" THEN PyStr(JoinComma(value.l)) ELSE value

\* The row built from the keys the record has only (a mutation of BuildRow).
BuildRowPresentKeys(row_dict) ==
    LET cols == SelectSeq(SHEET_COLUMNS, LAMBDA c : c \in DOMAIN row_dict)
    IN  [k \in 1..Len(cols) |-> CellValue(row_dict, cols[k])]

\* save_company_row, lines 394-401: one value per column of SHEET_COLUMNS.
BuildRow(row_dict) == [k \in 1..Len(SHEET_COLUMNS) |-> CellValue(row_dict, SHEET_COLUMNS[k])]

\* row_dict.get("domain") or "", compared as written (a mutation of RowDomain).
RowDomainAsWritten(row_dict) ==
    LET v == Get(row_dict, "domain", None)
    IN  IF Truthy(v) THEN v.s ELSE <<>>

\* (row_dict.get("domain") or "").strip().lower()
RowDomain(row_dict) ==
    LET v == Get(row_dict, "domain", None)
    IN  lower(strip(IF Truthy(v) THEN v.s ELSE <<>>))

\* save_company_row, lines 390-403, with the seen set re-read from the
\* worksheet at the moment of the append (a mutation: test and append as one).
append_after_recheck(w, row_dict, seen_rows, backend_ok) ==
    IF RowDomain(row_dict) \in get_seen_domains(w)
    THEN [raised |-> "ValueError", ws |-> w]
    ELSE IF ~backend_ok
    THEN [raised |-> "APIError", ws |-> w]
    ELSE [raised |-> "none", ws |-> Append(w, BuildRow(row_dict))]

\* save_company_row, lines 390-403: what follows the read of line 389, with
\* seen_rows the set that read returned and w the worksheet as it is when
\* append_row runs.
append_after_check(w, row_dict, seen_rows, backend_ok) ==
    IF RowDomain(row_dict) \in seen_rows
    THEN [raised |-> "ValueError", ws |-> w]
    ELSE IF ~backend_ok
    THEN [raised |-> "APIError", ws |-> w]
    ELSE [raised |-> "none", ws |-> Append(w, BuildRow(row_dict))]

\* save_company_row writing the new row right under the header instead of
\* appending it (a mutation: insert_row(row, 2) for append_row(row)).
save_company_row_insert_first(w, row_dict, backend_ok) ==
    IF RowDomain(row_dict) \in get_seen_domains(w)
    THEN [raised |-> "ValueError", ws |-> w]
    ELSE IF ~backend_ok
    THEN [raised |-> "APIError", ws |-> w]
    ELSE [raised |-> "none", ws |-> <<Head(w), BuildRow(row_dict)>> \o Tail(w)]

\* save_company_row with the append placed before the duplicate test, so
\* that the row is written before ValueError is raised (a mutation).
save_company_row_append_first(w, row_dict, backend_ok) ==
    IF ~backend_ok
    THEN [raised |-> "APIError", ws |-> w]
    ELSE IF RowDomain(row_dict) \in get_seen_domains(w)
    THEN [raised |-> "ValueError", ws |-> Append(w, BuildRow(row_dict))]
    ELSE [raised |-> "none", ws |-> Append(w, BuildRow(row_dict))]

\* save_company_row(ws, row_dict); backend_ok says whether ws.append_row
\* succeeds.  The result names the exception raised ("none" for a normal
\* return) and the worksheet afterwards.
save_company_row(w, row_dict, backend_ok) ==
    IF RowDomain(row_dict) \in get_seen_domains(w)
    THEN [raised |-> "ValueError", ws |-> w]
    ELSE IF ~backend_ok
    THEN [raised |-> "APIError", ws |-> w]
    ELSE [raised |-> "none", ws |-> Append(w, BuildRow(row_dict))]

\* --------------------------------------------------------- content fetcher
Min(a, b) == IF a < b THEN a ELSE b

\* Lengths of the block text of a fetched page.
ContentLens == {0, 199, 200, 10001}

\* What requests.get / raise_for_status / BeautifulSoup can do: return, raise
\* requests.Timeout, raise another requests.RequestException, or raise an
\* exception that is no RequestException (RecursionError of the HTML parser).
RequestOutcomes == {"ok", "Timeout", "RequestException", "RecursionError"}

\* scrape_with_requests returning text instead of text[:10000] (a mutation).
scrape_with_requests_uncapped(outcome, n) ==
    CASE outcome = "ok" -> [raised |-> "none", text |-> n]
      [] outcome = "Timeout" -> [raised |-> "none", text |-> 0]
      [] outcome = "RequestException" -> [raised |-> "none", text |-> 0]
      [] OTHER -> [raised |-> outcome, text |-> 0]

\* scrape_with_requests: the exception that leaves the function ("none" for a
\* normal return) and the length of the returned text.
scrape_with_requests(outcome, n) ==
    CASE outcome = "ok" -> [raised |-> "none", text |-> Min(n, TEXT_CAP)]
      [] outcome = "Timeout" -> [raised |-> "none", text |-> 0]
      [] outcome = "RequestException" -> [raised |-> "none", text |-> 0]
      [] OTHER -> [raised |-> outcome, text |-> 0]

\* How far launch_playwright_browser gets: the driver fails to start, the
\* browser fails to launch, the context cannot be created, or all three exist.
LaunchOutcomes == {"start_fails", "launch_fails", "context_fails", "launched"}

\* launch_playwright_browser: what it started, and what it handed back to its
\* caller (nothing when it raised).
launch_playwright_browser(outcome) ==
    CASE outcome = "start_fails" -> [raised |-> TRUE, started |-> {}, returned |-> {}]
      [] outcome = "launch_fails" -> [raised |-> TRUE, started |-> {"pw"}, returned |-> {}]
      [] outcome = "context_fails" ->
            [raised |-> TRUE, started |-> {"pw", "browser"}, returned |-> {}]
      [] OTHER ->
            [raised |-> FALSE, started |-> {"pw", "browser", "context"},
             returned |-> {"pw", "browser", "context"}]

\* What happens on the page once the session exists: new_page or page.content
\* raises, both goto calls time out, or the text is extracted.
PageOutcomes == {"error", "PlaywrightTimeout", "ok"}

\* scrape_with_playwright: the length of the returned text and the handles of
\* this call that are still open when it returns.  The finally block closes
\* exactly the handles bound to pw, browser and context.
scrape_with_playwright(launch, page, n) ==
    LET l == launch_playwright_browser(launch)
        closed == l.returned
    IN  [text |-> IF ~l.raised /\ page = "ok" THEN Min(n, TEXT_CAP) ELSE 0,
         open |-> l.started \ closed]

\* "not about_text or len(about_text) < 200" with a weaker test (a mutation).
NeedsFallbackEmptyOnly(len) == len = 0

\* not about_text or len(about_text) < 200
NeedsFallback(len) == len = 0 \/ len < FALLBACK_MIN_LEN

\* ------------------------------------------------------- profile extractor
EmptyDict == [k \in {} |-> None]

\* What generate_content gives: it raises, the response has neither parsed
\* nor text, the text is no JSON, or an object comes out of parsed or of text.
ResponseOutcomes == {"raises", "empty", "unparsable", "parsed", "text"}

\* The credential test that lets an unset key through (a mutation).
has_api_key_unchecked(key) == TRUE

\* llm_icp_analysis, lines 302-307: "if not API_KEY" is false.
has_api_key(key) == key

\* llm_icp_analysis, lines 358-372: the dict returned for a response of the
\* model: the validated dump, or {} when the call raised, the response holds
\* nothing, json.loads raises or model_validate raises.
llm_icp_analysis(outcome, out) ==
    IF outcome \in {"parsed", "text"} /\ model_validate(out) THEN model_dump(out) ELSE EmptyDict

\* ------------------------------------------------------------ orchestrator
\* The row dict process_domain builds from the analysis.
BuildRowDict(domain, an, rendered, today) ==
    [k \in Columns |->
        CASE k = "company_name" -> Get(an, k, PyStr(title(FirstLabel(domain))))
          [] k = "domain" -> Get(an, k, PyStr(domain))
          [] k = "summary" ->
                PyStr(Get(an, k, PyStr(<<>>)).s \o (IF rendered THEN <<" ", "[rendered]">> ELSE <<>>))
          [] k = "sources" -> Get(an, k, PyList(<<Word("https://") \o domain>>))
          [] k = "first_seen" -> Get(an, k, PyStr(today))
          [] k = "last_seen" -> Get(an, k, PyStr(today))
          [] OTHER -> Get(an, k, PyStr(<<>>))]

\* Exceptions that can leave process_domain.
ExceptionKinds == {"RuntimeError", "ValueError", "APIError", "RecursionError"}

\* "except Exception" narrowed to the pipeline's own RuntimeError (a mutation).
main_except_runtime_only(e) == e = "RuntimeError"

\* main's "except Exception as e": every kind above derives from Exception.
main_except(e) == e \in ExceptionKinds

BatchDomains == {dA, dAU, dB}
InitDomains == {dA, dAU, dAS, dB}

SeqsUpTo(S, n) == UNION {[1..m -> S] : m \in 0..n}

\* Sequences of texts no two of which normalize to the same domain.
DistinctDomains(q) ==
    \A x, y \in 1..Len(q) : x # y => lower(strip(q[x])) # lower(strip(q[y]))

\* A row stored by an earlier batch.
StoredRow(dom) ==
    BuildRow(model_dump(Profile(dom, 50, Word("Medium"), <<Url1>>, PyStr(Day1), PyStr(Day1))))

\* The worksheets a batch can start from: the header and rows of distinct domains.
InitialSheets ==
    { <<HeaderRow>> \o [r \in 1..Len(q) |-> StoredRow(q[r])] :
        q \in {x \in SeqsUpTo(InitDomains, MaxInitRows) : DistinctDomains(x)} }

VARIABLES
    ws,              \* the worksheet (header row first)
    ws0,             \* the worksheet when the batch started
    domains,         \* main: the batch
    seen,            \* main: get_seen_domains(ws) read before the loop
    i,               \* main: position of the loop in the batch
    pc,              \* the statement main / process_domain is at
    status,          \* per batch position: the state of that domain
    error,           \* the exception that failed the domain last handled
    api_key,         \* whether GEMINI_API_KEY is set
    about_text,      \* process_domain: length of about_text
    static_text,     \* length of about_text as line 417 left it (-1: not yet)
    used_playwright, \* process_domain: used_playwright
    analysis,        \* process_domain: analysis
    calls,           \* the external calls made for the domain last taken up
    response,        \* llm_icp_analysis: the response of the model call being handled
    open_handles,    \* handles the last rendered fetch started and left open
    last_save,       \* the last direct save_company_row call and its result
    save_frame       \* save_company_row: argument and seen set of a call under way

vars ==
    << ws, ws0, domains, seen, i, pc, status, error, api_key, about_text, static_text,
       used_playwright, analysis, calls, response, open_handles, last_save,
                    save_frame >>

NoResponse == [outcome |-> "none", out |-> EmptyDict]

NoSave == [made |-> FALSE, row_dict |-> EmptyDict, raised |-> "none", before |-> <<>>]

NoFrame == [active |-> FALSE, row_dict |-> EmptyDict, seen |-> {}]

Init ==
    /\ ws \in InitialSheets
    /\ ws0 = ws
    /\ domains \in {q \in SeqsUpTo(BatchDomains, MaxBatch) : q # <<>>}
    /\ seen = {}
    /\ i = 1
    /\ pc = "start"
    /\ status = [k \in 1..Len(domains) |-> "Pending"]
    /\ error = "none"
    /\ api_key \in BOOLEAN
    /\ about_text = 0
    /\ static_text = 0 - 1
    /\ used_playwright = FALSE
    /\ analysis = EmptyDict
    /\ calls = <<>>
    /\ response = NoResponse
    /\ open_handles = {}
    /\ last_save = NoSave
    /\ save_frame = NoFrame

\* main, lines 457-458: the seen set is read once, before the loop.
Start ==
    /\ pc = "start"
    /\ seen' = get_seen_domains(ws)
    /\ pc' = "loop"
    /\ UNCHANGED << ws, ws0, domains, i, status, error, api_key, about_text,
                    static_text, used_playwright, analysis, calls, response, open_handles,
                    last_save,
                    save_frame >>

\* The locals of process_domain go away when it returns or raises.
DropLocals ==
    /\ about_text' = 0
    /\ static_text' = 0 - 1
    /\ used_playwright' = FALSE
    /\ analysis' = EmptyDict

\* main, lines 461-463: a seen domain is skipped.
LoopSkip ==
    /\ pc = "loop"
    /\ i <= Len(domains)
    /\ domains[i] \in seen
    /\ status' = [status EXCEPT ![i] = "Skipped"]
    /\ i' = i + 1
    /\ calls' = <<>>
    /\ error' = "none"
    /\ open_handles' = {}
    /\ UNCHANGED << ws, ws0, domains, seen, pc, api_key, about_text, static_text,
                    used_playwright, analysis, response, last_save,
                    save_frame >>

\* main, lines 464-465: process_domain is entered for an unseen domain.
LoopEnter ==
    /\ pc = "loop"
    /\ i <= Len(domains)
    /\ domains[i] \notin seen
    /\ status' = [status EXCEPT ![i] = "Fetching"]
    /\ pc' = "static_about"
    /\ calls' = <<>>
    /\ error' = "none"
    /\ open_handles' = {}
    /\ UNCHANGED << ws, ws0, domains, seen, i, api_key, about_text, static_text,
                    used_playwright, analysis, response, last_save,
                    save_frame >>

\* main: the for loop is exhausted.
LoopExit ==
    /\ pc = "loop"
    /\ i > Len(domains)
    /\ pc' = "done"
    /\ UNCHANGED << ws, ws0, domains, seen, i, status, error, api_key, about_text,
                    static_text, used_playwright, analysis, calls, response, open_handles,
                    last_save,
                    save_frame >>

\* process_domain calling save_company_row a second time after a first
\* backend error (a mutation of Raise: one retry of the append).
RaiseRetryAppend(e) ==
    IF e = "APIError" /\ \A k \in 1..Len(calls) : calls[k] # "save"
    THEN /\ error' = e
         /\ pc' = "persist"
         /\ UNCHANGED << status, i, about_text, static_text, used_playwright, analysis >>
    ELSE /\ error' = e
         /\ DropLocals
         /\ IF main_except(e)
            THEN /\ status' = [status EXCEPT ![i] = "Failed"]
                 /\ i' = i + 1
                 /\ pc' = "loop"
            ELSE /\ pc' = "crashed"
                 /\ UNCHANGED << status, i >>

\* An exception of kind e leaves process_domain: main's handler logs it and
\* the loop goes on; an exception the handler does not catch ends main.
Raise(e) ==
    /\ error' = e
    /\ DropLocals
    /\ IF main_except(e)
       THEN /\ status' = [status EXCEPT ![i] = "Failed"]
            /\ i' = i + 1
            /\ pc' = "loop"
       ELSE /\ pc' = "crashed"
            /\ UNCHANGED << status, i >>

\* Line 417 going on to "/" whenever the "/about" text is shorter than 200
\* characters, not only when it is empty (a mutation of StaticAbout).
StaticAboutShortGoesOn ==
    /\ pc = "static_about"
    /\ \E outcome \in RequestOutcomes, n \in ContentLens :
         LET r == scrape_with_requests(outcome, n)
         IN  /\ calls' = Append(calls, "static /about")
             /\ IF r.raised # "none"
                THEN Raise(r.raised)
                ELSE /\ about_text' = r.text
                     /\ static_text' = IF r.text >= FALLBACK_MIN_LEN THEN r.text ELSE static_text
                     /\ pc' = IF r.text >= FALLBACK_MIN_LEN THEN "threshold" ELSE "static_root"
                     /\ UNCHANGED << status, i, error, used_playwright, analysis >>
    /\ UNCHANGED << ws, ws0, domains, seen, api_key, response, open_handles, last_save,
                    save_frame >>

\* process_domain, line 417, left operand: the static fetch of "/about".
StaticAbout ==
    /\ pc = "static_about"
    /\ \E outcome \in RequestOutcomes, n \in ContentLens :
         LET r == scrape_with_requests(outcome, n)
         IN  /\ calls' = Append(calls, "static /about")
             /\ IF r.raised # "none"
                THEN Raise(r.raised)
                ELSE /\ about_text' = r.text
                     /\ static_text' = IF r.text # 0 THEN r.text ELSE static_text
                     /\ pc' = IF r.text # 0 THEN "threshold" ELSE "static_root"
                     /\ UNCHANGED << status, i, error, used_playwright, analysis >>
    /\ UNCHANGED << ws, ws0, domains, seen, api_key, response, open_handles, last_save,
                    save_frame >>

\* process_domain, line 417, right operand: the static fetch of "/".
StaticRoot ==
    /\ pc = "static_root"
    /\ \E outcome \in RequestOutcomes, n \in ContentLens :
         LET r == scrape_with_requests(outcome, n)
         IN  /\ calls' = Append(calls, "static /")
             /\ IF r.raised # "none"
                THEN Raise(r.raised)
                ELSE /\ about_text' = r.text
                     /\ static_text' = r.text
                     /\ pc' = "threshold"
                     /\ UNCHANGED << status, i, error, used_playwright, analysis >>
    /\ UNCHANGED << ws, ws0, domains, seen, api_key, response, open_handles, last_save,
                    save_frame >>

\* process_domain, lines 419-423: the rendered fetch replaces a short text.
Rendered ==
    /\ pc = "threshold"
    /\ NeedsFallback(about_text)
    /\ \E launch \in LaunchOutcomes, page \in PageOutcomes, n \in ContentLens :
         LET r == scrape_with_playwright(launch, page, n)
         IN  /\ about_text' = r.text
             /\ open_handles' = r.open
    /\ used_playwright' = TRUE
    /\ calls' = Append(calls, "rendered")
    /\ status' = [status EXCEPT ![i] = "Extracting"]
    /\ pc' = "extract"
    /\ UNCHANGED << ws, ws0, domains, seen, i, error, api_key, static_text, analysis,
                    response, last_save,
                    save_frame >>

\* process_domain, line 419, condition false: the static text is kept.
NoFallback ==
    /\ pc = "threshold"
    /\ ~NeedsFallback(about_text)
    /\ status' = [status EXCEPT ![i] = "Extracting"]
    /\ pc' = "extract"
    /\ UNCHANGED << ws, ws0, domains, seen, i, error, api_key, about_text, static_text,
                    used_playwright, analysis, calls, response, open_handles, last_save,
                    save_frame >>

\* process_domain, line 426, and llm_icp_analysis, lines 297-355: without a
\* key {} is returned at once (and line 428 raises); with one, the model is
\* called and answers.
LlmCall ==
    /\ pc = "extract"
    /\ IF has_api_key(api_key)
       THEN /\ \E outcome \in ResponseOutcomes, out \in ModelOutputs :
                 response' = [outcome |-> outcome,
                              out |-> IF outcome \in {"parsed", "text"} THEN out ELSE EmptyDict]
            /\ calls' = calls \o <<"llm", "model">>
            /\ pc' = "llm_response"
            /\ UNCHANGED << status, i, error, about_text, static_text, used_playwright,
                            analysis >>
       ELSE /\ calls' = Append(calls, "llm")
            /\ Raise("RuntimeError")
            /\ UNCHANGED response
    /\ UNCHANGED << ws, ws0, domains, seen, api_key, open_handles, last_save,
                    save_frame >>

\* llm_icp_analysis, lines 358-372, and process_domain, lines 427-428: the
\* response is parsed and validated; an empty result raises RuntimeError.
LlmReturn ==
    /\ pc = "llm_response"
    /\ LET an == llm_icp_analysis(response.outcome, response.out)
       IN  IF DOMAIN an = {}
           THEN Raise("RuntimeError")
           ELSE /\ analysis' = an
                /\ status' = [status EXCEPT ![i] = "Persisting"]
                /\ pc' = "persist"
                /\ UNCHANGED << i, error, about_text, static_text, used_playwright >>
    /\ response' = NoResponse
    /\ UNCHANGED << ws, ws0, domains, seen, api_key, calls, open_handles, last_save,
                    save_frame >>

\* process_domain, lines 430-451: the row is built and handed to save_company_row.
Persist ==
    /\ pc = "persist"
    /\ \E backend_ok \in BOOLEAN :
         LET row == BuildRowDict(domains[i], analysis, used_playwright, Today)
             r == save_company_row(ws, row, backend_ok)
         IN  /\ ws' = r.ws
             /\ calls' = calls \o <<"save">> \o (IF r.raised = "ValueError" THEN <<>> ELSE <<"append">>)
             /\ IF r.raised # "none"
                THEN Raise(r.raised)
                ELSE /\ status' = [status EXCEPT ![i] = "Done"]
                     /\ i' = i + 1
                     /\ pc' = "loop"
                     /\ DropLocals
                     /\ UNCHANGED error
    /\ UNCHANGED << ws0, domains, seen, api_key, response, open_handles, last_save,
                    save_frame >>

Next ==
    \/ Start
    \/ LoopSkip
    \/ LoopEnter
    \/ LoopExit
    \/ StaticAbout
    \/ StaticRoot
    \/ Rendered
    \/ NoFallback
    \/ LlmCall
    \/ LlmReturn
    \/ Persist

Spec == Init /\ [][Next]_vars

\* The batches of the termination check: one domain in two spellings, met by
\* an empty worksheet or by one that already holds it, so that skips,
\* duplicates and every kind of failure occur.
LiveInit ==
    /\ Init
    /\ \A k \in 1..Len(domains) : domains[k] \in {dA, dAU}
    /\ ws \in {<<HeaderRow>>, <<HeaderRow, StoredRow(dA)>>}

\* The loop is sequential code in which every external call returns or
\* raises: whenever a step is possible, one is taken.
FairSpec == LiveInit /\ [][Next]_vars /\ WF_vars(Next)

\* ------------------------------------------- the store driven on its own
\* Record dicts handed to save_company_row directly: rows as process_domain
\* builds them, the same domain in other spellings, an empty, None or missing
\* domain, a missing column and an undeclared key.
Records ==
    LET base == model_dump(Profile(dA, 50, Word("High"), <<Url1, Url2>>, None, None))
        rec(v) == [base EXCEPT !["domain"] = v]
    IN  {rec(PyStr(d)) : d \in InitDomains \cup {<<>>}}
            \cup {rec(None), Without(base, "domain"), Without(rec(PyStr(dB)), "sources"),
                  WithExtra(rec(PyStr(dAU)))}

StoreInit ==
    /\ ws \in InitialSheets
    /\ ws0 = ws
    /\ domains = <<>>
    /\ seen = {}
    /\ i = 1
    /\ pc = "store"
    /\ status = <<>>
    /\ error = "none"
    /\ api_key = FALSE
    /\ about_text = 0
    /\ static_text = 0 - 1
    /\ used_playwright = FALSE
    /\ analysis = EmptyDict
    /\ calls = <<>>
    /\ response = NoResponse
    /\ open_handles = {}
    /\ last_save = NoSave
    /\ save_frame = NoFrame

\* One call save_company_row(ws, row_dict), returning or raising.
SaveCall ==
    /\ pc = "store"
    /\ \E row_dict \in Records, backend_ok \in BOOLEAN :
         LET r == save_company_row(ws, row_dict, backend_ok)
         IN  /\ ws' = r.ws
             /\ last_save' = [made |-> TRUE, row_dict |-> row_dict, raised |-> r.raised,
                              before |-> ws]
    /\ UNCHANGED << ws0, domains, seen, i, pc, status, error, api_key, about_text,
                    static_text, used_playwright, analysis, calls, response, open_handles,
                    save_frame >>

StoreNext == SaveCall

StoreSpec == StoreInit /\ [][StoreNext]_vars

\* ------------------------------ the store shared with a second writer
\* save_company_row in its two accesses to the worksheet, the read of line
\* 389 and the append of line 403, with another writer of the same worksheet
\* free to act before, between and after them.
RaceRecords ==
    LET base == model_dump(Profile(dA, 50, Word("High"), <<Url1, Url2>>, None, None))
    IN  {[base EXCEPT !["domain"] = PyStr(d)] : d \in InitDomains}

RaceInit ==
    /\ ws \in InitialSheets
    /\ ws0 = ws
    /\ domains = <<>>
    /\ seen = {}
    /\ i = 1
    /\ pc = "save_read"
    /\ status = <<>>
    /\ error = "none"
    /\ api_key = FALSE
    /\ about_text = 0
    /\ static_text = 0 - 1
    /\ used_playwright = FALSE
    /\ analysis = EmptyDict
    /\ calls = <<>>
    /\ response = NoResponse
    /\ open_handles = {}
    /\ last_save = NoSave
    /\ save_frame = NoFrame

\* save_company_row, line 389: seen = get_seen_domains(ws).
SaveRead ==
    /\ pc = "save_read"
    /\ \E row_dict \in RaceRecords :
         save_frame' = [active |-> TRUE, row_dict |-> row_dict, seen |-> get_seen_domains(ws)]
    /\ pc' = "save_append"
    /\ UNCHANGED << ws, ws0, domains, seen, i, status, error, api_key, about_text,
                    static_text, used_playwright, analysis, calls, response, open_handles,
                    last_save >>

\* save_company_row, lines 390-403: the test against the set read before and
\* the append to the worksheet as it is now.
SaveAppend ==
    /\ pc = "save_append"
    /\ \E backend_ok \in BOOLEAN :
         LET r == append_after_check(ws, save_frame.row_dict, save_frame.seen, backend_ok)
         IN  /\ ws' = r.ws
             /\ last_save' = [made |-> TRUE, row_dict |-> save_frame.row_dict,
                              raised |-> r.raised, before |-> ws]
    /\ save_frame' = NoFrame
    /\ pc' = "save_read"
    /\ UNCHANGED << ws0, domains, seen, i, status, error, api_key, about_text,
                    static_text, used_playwright, analysis, calls, response, open_handles >>

\* The second writer: another run of the same pipeline, whose own read and
\* append happen together, stores a row for a domain the worksheet lacks.
OtherWriter ==
    /\ pc \in {"save_read", "save_append"}
    /\ \E row_dict \in RaceRecords :
         /\ RowDomain(row_dict) \notin get_seen_domains(ws)
         /\ ws' = Append(ws, BuildRow(row_dict))
    /\ UNCHANGED << ws0, domains, seen, i, pc, status, error, api_key, about_text,
                    static_text, used_playwright, analysis, calls, response, open_handles,
                    last_save, save_frame >>

RaceNext ==
    \/ SaveRead
    \/ SaveAppend
    \/ OtherWriter

RaceSpec == RaceInit /\ [][RaceNext]_vars

\* ------------------------------------------------------------------ claims
\* The normalized (trimmed, lower-cased) form of a domain text.
Normalized(s) == lower(strip(s))

\* The normalized domains of the data rows of a worksheet, by row.
DomainColumn(w) ==
    [r \in 1..(Len(w) - 1) |-> Normalized(CellText(w[r + 1][ColumnIndex("domain")]))]

StoredDomains(w) == {DomainColumn(w)[r] : r \in 1..(Len(w) - 1)}

\* The normalized domain of a record dict ("" when it has none).
RecordDomain(d) ==
    IF "domain" \in DOMAIN d /\ d["domain"].t = "str" THEN Normalized(d["domain"].s) ELSE <<>>

Count(q, x) == Cardinality({k \in 1..Len(q) : q[k] = x})

Terminal == {"Done", "Skipped", "Failed"}

\* C1: starting from a store without two rows of the same normalized domain,
\* after any sequence of save_company_row calls, successful or not, no two rows
\* of the store have the same normalized domain.
C1_OneRowPerDomain ==
    \A x, y \in 1..(Len(ws) - 1) : x # y => DomainColumn(ws)[x] # DomainColumn(ws)[y]

\* C1 witness: a call was refused for a domain stored under another spelling,
\* after the store had grown.
C1_Witness ==
    /\ last_save.made
    /\ last_save.raised = "ValueError"
    /\ Len(ws) > Len(ws0)
    /\ \A r \in 2..Len(ws) :
          CellText(ws[r][ColumnIndex("domain")]) # CellText(Get(last_save.row_dict, "domain", None))

\* C2: save_company_row with a record whose normalized domain is already in the
\* domain column raises the duplicate error and leaves the rows unchanged.
C2_DuplicateRefused ==
    (last_save.made /\ RecordDomain(last_save.row_dict) \in StoredDomains(last_save.before))
        => (last_save.raised = "ValueError" /\ ws = last_save.before)

\* C2 witness: a duplicate was refused although the backend would have
\* accepted the row, with the store as it was.
C2_Witness ==
    /\ last_save.made
    /\ RecordDomain(last_save.row_dict) \in StoredDomains(last_save.before)
    /\ last_save.raised = "ValueError"
    /\ ws = last_save.before
    /\ Len(ws) >= 3

\* C3: a batch domain whose normalized form is in the store's domain column at
\* batch start goes straight to Skipped: it is never fetched, extracted or stored.
C3_SeenDomainSkipped ==
    \A k \in 1..Len(domains) :
        Normalized(domains[k]) \in StoredDomains(ws0) => status[k] \in {"Pending", "Skipped"}

\* C4: no failure while one domain is processed stops the loop: every domain
\* of the batch reaches a terminal state and the batch terminates.
C4_BatchCompletes ==
    <>(pc = "done" /\ \A k \in 1..Len(domains) : status[k] \in Terminal)

\* C4 witness: the batch is finished and a domain was processed to Done after
\* an earlier domain had failed.
C4_Witness ==
    /\ pc = "done"
    /\ \E k, m \in 1..Len(domains) : k < m /\ status[k] = "Failed" /\ status[m] = "Done"

\* C5: once the fetch stage of a domain is over, the rendered fetch was invoked
\* exactly once if the static text is shorter than 200 and never otherwise; it
\* is never invoked twice, and never after llm_icp_analysis.
C5_FallbackLaw ==
    /\ Count(calls, "rendered") <= 1
    /\ \A x, y \in 1..Len(calls) : (calls[x] = "rendered" /\ calls[y] = "llm") => x < y
    /\ pc \in {"extract", "llm_response", "persist"} =>
          Count(calls, "rendered") = (IF static_text < 200 THEN 1 ELSE 0)

\* C5 witness: a non-empty static text of 199 characters was replaced by the
\* rendered fetch before the extraction.
C5_Witness ==
    /\ pc = "persist"
    /\ static_text = 199
    /\ Count(calls, "rendered") = 1
    /\ Count(calls, "llm") = 1

\* C6: no failure of a fetch propagates: every domain that was taken up and
\* has ended went through llm_icp_analysis.
C6_FetchFailureDegrades ==
    (pc = "loop" /\ i > 1 /\ status[i - 1] \in {"Done", "Failed"}) => Count(calls, "llm") = 1

\* C7: after scrape_with_playwright returns, no driver, browser or context it
\* started is still open.
C7_SessionTornDown == open_handles = {}

\* C8: without a credential the model is not called, the domain ends Failed
\* and no row is appended.
C8_NoCredential ==
    ~api_key =>
        /\ Count(calls, "model") = 0
        /\ ws = ws0
        /\ \A k \in 1..Len(domains) : status[k] \notin {"Persisting", "Done"}
        /\ Count(calls, "llm") = 1 => (status[i - 1] = "Failed" /\ error = "RuntimeError")

\* C8 witness: llm_icp_analysis was entered without a credential and the
\* domain has ended Failed.
C8_Witness ==
    /\ ~api_key
    /\ Count(calls, "llm") = 1
    /\ pc = "loop"
    /\ status[i - 1] = "Failed"

Digit(c) ==
    CASE c = "0" -> 0
      [] c = "1" -> 1
      [] c = "2" -> 2
      [] OTHER -> 3

\* a < b for two ISO date texts of the same length.
RECURSIVE DateBefore(_, _)
DateBefore(a, b) ==
    IF a = <<>> \/ b = <<>> THEN FALSE
    ELSE IF Digit(Head(a)) # Digit(Head(b)) THEN Digit(Head(a)) < Digit(Head(b))
    ELSE DateBefore(Tail(a), Tail(b))

\* The invariants of a CompanyProfile (section 3 of the specification) that
\* a model output of this model can violate.
ProfileInvariants(o) ==
    /\ \A k \in RequiredStr \cup {"fit_score", "fit_class", "sources"} : k \in DOMAIN o
    /\ 0 <= o["fit_score"].n /\ o["fit_score"].n <= 100
    /\ o["fit_class"].s \in {Word("High"), Word("Medium"), Word("Low")}
    /\ \E k \in 1..Len(o["domain"].s) : o["domain"].s[k] = "."
    /\ Len(o["sources"].l) >= 1
    /\ (o["first_seen"].t = "str" /\ o["last_seen"].t = "str") =>
          ~DateBefore(o["last_seen"].s, o["first_seen"].s)

\* C9: when the model output violates a CompanyProfile invariant, or is empty or
\* unparsable, the step that handles it gets the empty result: the domain ends
\* Failed (RuntimeError of line 428) and no row is appended.
C9_InvalidOutputRejected ==
    [][(/\ pc = "llm_response"
        /\ \/ response.outcome \in {"raises", "empty", "unparsable"}
           \/ ~ProfileInvariants(response.out))
          => (status'[i] = "Failed" /\ error' = "RuntimeError" /\ ws' = ws /\ pc' = "loop")]_vars

\* C10: the same domain twice in a batch, not in the store at batch start, both
\* occurrences extracted and the backend accepting appends: the first ends Done,
\* the second is refused as a duplicate and ends Failed, one row is stored for it.
C10_SameDomainTwice ==
    (/\ pc = "done"
     /\ Len(domains) = 2
     /\ domains[1] = domains[2]
     /\ Normalized(domains[1]) \notin StoredDomains(ws0)
     /\ status[1] = "Done"
     /\ Count(calls, "save") = 1
     /\ error # "APIError")
        => /\ status[2] = "Failed"
           /\ error = "ValueError"
           /\ Count(DomainColumn(ws), Normalized(domains[1])) = 1

\* The statements of process_domain.
ProcessPcs == {"static_about", "static_root", "threshold", "extract", "llm_response", "persist"}

\* C11: a domain that ends Failed leaves the store as it was when the domain
\* was taken up: no step of process_domain other than the one that ends the
\* domain Done changes the worksheet, in particular not the step that ends it
\* Failed.
C11_FailedLeavesStore ==
    [][(pc \in ProcessPcs /\ status'[i] # "Done") => ws' = ws]_vars

\* C11 witness: the second domain failed from Persisting on a duplicate, after
\* the first had stored its row.
C11_Witness ==
    /\ pc = "loop"
    /\ i = 3
    /\ status = <<"Done", "Failed">>
    /\ error = "ValueError"
    /\ Len(ws) = Len(ws0) + 1

\* C12: the row appended by a successful save_company_row call has as many
\* fields as SHEET_COLUMNS (19); field k is the record's value of column
\* SHEET_COLUMNS[k], a list joined into one comma-separated text, and the empty
\* text for a key the record lacks; keys outside SHEET_COLUMNS add nothing.
C12_RowShape ==
    (last_save.made /\ last_save.raised = "none") =>
        LET row == ws[Len(ws)]
            rec == last_save.row_dict
        IN  /\ ws = Append(last_save.before, row)
            /\ Len(SHEET_COLUMNS) = 19
            /\ Len(row) = Len(SHEET_COLUMNS)
            /\ \A k \in 1..Len(SHEET_COLUMNS) :
                  LET col == SHEET_COLUMNS[k]
                  IN  IF col \notin DOMAIN rec THEN row[k] = PyStr(<<>>)
                      ELSE IF rec[col].t = "list" THEN row[k] = PyStr(JoinComma(rec[col].l))
                      ELSE row[k] = rec[col]

\* C12 witness: a row was appended for a record that lacks a column, after a
\* row for a record with two sources.
C12_Witness ==
    /\ last_save.made
    /\ last_save.raised = "none"
    /\ "sources" \notin DOMAIN last_save.row_dict
    /\ Len(ws) >= 3
    /\ ws[Len(ws) - 1][ColumnIndex("sources")] = PyStr(Url1 \o <<",", " ">> \o Url2)

\* Whether process_domain holds a record accepted by the extractor.
Accepted == DOMAIN analysis # {}

\* C13: every record accepted by the extractor, and every row the pipeline has
\* stored, has at least one source.
C13_SourcesNonEmpty ==
    /\ Accepted => Len(analysis["sources"].l) >= 1
    /\ \A r \in 2..Len(ws) : CellText(ws[r][ColumnIndex("sources")]) # <<>>

\* C14: every record accepted by the extractor, and every row of the store,
\* has 0 <= fit_score <= 100, fit_class High, Medium or Low and a domain that
\* contains ".".
C14_ScoreClassDomain ==
    /\ Accepted =>
          /\ analysis["fit_score"].n \in 0..100
          /\ analysis["fit_class"].s \in {Word("High"), Word("Medium"), Word("Low")}
          /\ \E k \in 1..Len(analysis["domain"].s) : analysis["domain"].s[k] = "."
    /\ \A r \in 2..Len(ws) :
          /\ ws[r][ColumnIndex("fit_score")].t = "int"
          /\ ws[r][ColumnIndex("fit_score")].n \in 0..100
          /\ ws[r][ColumnIndex("fit_class")].s \in {Word("High"), Word("Medium"), Word("Low")}
          /\ \E k \in 1..Len(ws[r][ColumnIndex("domain")].s) :
                ws[r][ColumnIndex("domain")].s[k] = "."

\* C14 witness: the batch has stored a row with the highest score and a row
\* for another domain after it.
C14_Witness ==
    /\ pc = "done"
    /\ Len(ws) = Len(ws0) + 2
    /\ ws[Len(ws) - 1][ColumnIndex("fit_score")] = PyInt(100)
    /\ ws[Len(ws)][ColumnIndex("fit_class")] = PyStr(Word("Low"))

\* C15: every record accepted by the extractor that has both dates has
\* last_seen >= first_seen.
C15_DatesOrdered ==
    (Accepted /\ analysis["first_seen"].t = "str" /\ analysis["last_seen"].t = "str")
        => ~DateBefore(analysis["last_seen"].s, analysis["first_seen"].s)

\* C16: the text a fetch returns is at most 10,000 characters long, for page
\* content of any length and on the failure paths too: the text process_domain
\* holds is never longer, and neither is the result of either fetcher for any
\* outcome and content length.
C16_TextCapped ==
    /\ about_text <= 10000
    /\ static_text <= 10000
    /\ \A outcome \in RequestOutcomes, n \in ContentLens :
          scrape_with_requests(outcome, n).text <= 10000
    /\ \A launch \in LaunchOutcomes, page \in PageOutcomes, n \in ContentLens :
          scrape_with_playwright(launch, page, n).text <= 10000

\* C16 witness: the extraction is reached with a static text of exactly
\* 10,000 characters, cut from a longer page.
C16_Witness ==
    /\ pc = "extract"
    /\ ~used_playwright
    /\ about_text = 10000
    /\ \E n \in ContentLens : n > 10000

\* Two data rows of a worksheet hold the same normalized domain.
HasDuplicate(w) ==
    \E x, y \in 1..(Len(w) - 1) : x # y /\ DomainColumn(w)[x] = DomainColumn(w)[y]

\* C17: the duplicate check is not atomic against a second writer: whenever
\* that writer has stored the record's normalized domain between the read of
\* get_seen_domains and the append, and the backend accepts the append,
\* save_company_row does not raise and appends its row, and the store then
\* holds two rows with the same normalized domain.
C17_CheckNotAtomic ==
    [][(/\ pc = "save_append"
        /\ pc' = "save_read"
        /\ RowDomain(save_frame.row_dict) \notin save_frame.seen
        /\ RowDomain(save_frame.row_dict) \in get_seen_domains(ws)
        /\ last_save'.raised # "APIError")
          => /\ last_save'.raised = "none"
             /\ ws' = Append(ws, BuildRow(save_frame.row_dict))
             /\ HasDuplicate(ws')]_vars

\* C17 witness: a store that had no two rows of one domain holds two after a
\* save_company_row call that returned normally for a domain the other writer
\* had stored since the call's read.
C17_Witness ==
    /\ last_save.made
    /\ last_save.raised = "none"
    /\ ~HasDuplicate(last_save.before)
    /\ RecordDomain(last_save.row_dict) \in StoredDomains(last_save.before)
    /\ HasDuplicate(ws)

\* C18: the row stored for a domain is the accepted record, field by field,
\* with only the lists joined: the step that ends a domain Done appends exactly
\* the row of the record the extractor returned, whichever fetch was used.
C18_RowIsProfile ==
    [][(pc = "persist" /\ status'[i] = "Done") => ws' = Append(ws, BuildRow(analysis))]_vars

\* C19: for each occurrence of a domain in the batch llm_icp_analysis is
\* called at most once, the model at most once, save_company_row at most once
\* and append_row at most once, and an occurrence that has ended Done, Skipped
\* or Failed is never taken up again.
C19_NoRetry ==
    /\ [](/\ Count(calls, "llm") <= 1
          /\ Count(calls, "model") <= 1
          /\ Count(calls, "save") <= 1
          /\ Count(calls, "append") <= 1)
    /\ [][\A k \in 1..Len(domains) : status[k] \in Terminal => status'[k] = status[k]]_vars

\* C19 witness: a domain has ended Failed on a backend write error after one
\* extraction and one append attempt.
C19_Witness ==
    /\ pc = "loop"
    /\ i > 1
    /\ status[i - 1] = "Failed"
    /\ error = "APIError"
    /\ Count(calls, "llm") = 1
    /\ Count(calls, "save") = 1
    /\ Count(calls, "append") = 1

\* C20: domains are processed in batch order, one at a time: every domain
\* before the loop position has ended (Done, Skipped or Failed), every domain
\* after it is untouched, the position only moves to the next domain, and every
\* write to the store appends one row at the end for the domain at the loop
\* position; so the rows of a batch lie in the store in the order of their
\* domains in the batch.
C20_BatchOrder ==
    /\ [](/\ \A k \in 1..Len(domains) : k < i => status[k] \in Terminal
          /\ \A k \in 1..Len(domains) : k > i => status[k] = "Pending"
          /\ Len(ws) - Len(ws0) = Cardinality({k \in 1..Len(domains) : status[k] = "Done"}))
    /\ [][/\ i' \in {i, i + 1}
          /\ ws' # ws =>
                /\ Len(ws') = Len(ws) + 1
                /\ SubSeq(ws', 1, Len(ws)) = ws
                /\ status[i] = "Persisting"
                /\ status'[i] = "Done"
                /\ i' = i + 1]_vars

\* C20 witness: a batch of two domains has ended with both Done and their
\* rows stored in batch order.
C20_Witness ==
    /\ pc = "done"
    /\ domains = <<dB, dA>>
    /\ status = <<"Done", "Done">>
    /\ Len(ws) = Len(ws0) + 2
    /\ ws[Len(ws) - 1][ColumnIndex("domain")] = PyStr(dB)
    /\ ws[Len(ws)][ColumnIndex("domain")] = PyStr(dA)

\* C21: the static fetch asks for "/about" first and for "/" if and only if
\* the "/about" fetch returned the empty text: a non-empty "/about" text, even
\* one shorter than 200 characters, goes to the threshold test as it is and "/"
\* is not fetched; an empty one is followed by the fetch of "/", whose text goes
\* to the threshold test.
C21_AboutThenRoot ==
    /\ [](/\ calls # <<>> => calls[1] = "static /about"
          /\ \A k \in 1..Len(calls) :
                /\ calls[k] = "static /about" => k = 1
                /\ calls[k] = "static /" => k = 2
          /\ pc = "static_root" => (about_text = 0 /\ calls = <<"static /about">>)
          /\ pc = "threshold" =>
                /\ about_text = static_text
                /\ \/ calls = <<"static /about">> /\ about_text > 0
                   \/ calls = <<"static /about", "static /">>)
    /\ [][(pc = "static_about" /\ pc' \in {"threshold", "static_root"}) =>
             /\ about_text' # 0 => (pc' = "threshold" /\ calls' = <<"static /about">>)
             /\ about_text' = 0 => pc' = "static_root"]_vars

\* C21 witness: "/about" gave 199 characters, "/" was not fetched and the
\* 199 characters are at the threshold test.
C21_Witness ==
    /\ pc = "threshold"
    /\ calls = <<"static /about">>
    /\ about_text = 199
    /\ static_text = 199

\* C22: whenever a batch domain has ended Done, its own normalized form is in
\* the set get_seen_domains returns for the store, so that a later batch
\* skips it.
C22_DoneDomainSeen ==
    \A k \in 1..Len(domains) :
        status[k] = "Done" => Normalized(domains[k]) \in get_seen_domains(ws)

====
